---- MODULE Spec2Model ----
(***************************************************************************)
(* Campus-Wifi-Connector as state machines: the encrypted local vault      *)
(* (utils/storage.py, class SecureStorage), the local authentication       *)
(* lockout (services/auth_service.py, class AuthService), the input        *)
(* validators (utils/validators.py, class InputValidator) and the login    *)
(* flow of the UI (main.py, class LoginScreen).                            *)
(*                                                                         *)
(* The file system is a tree of three directories: "top" holds the two     *)
(* storage roots "r1" and "r2".  Vault "v1" is constructed on "r1" and     *)
(* vault "v2" on "r2".  A file holds bytes; bytes are modelled by what the *)
(* three readers of the code can make of them: Fernet(key), Fernet.decrypt *)
(* and json.loads.                                                         *)
(***************************************************************************)
EXTENDS Integers, Sequences, FiniteSets, TLC

VARIABLES
    dirs,      \* the directories that exist
    fs,        \* path -> bytes of the file at that path, or NoFile
    vault,     \* vault -> [alive, cipher]: the SecureStorage object, if constructed
    nextKey,   \* the next key os.urandom/PBKDF2 will yield (keys are numbered)
    key_mode,  \* vault -> the permission bits of its key file, "none" without a file
    last,      \* the last call made and what it returned
    \* AuthService
    server,            \* self.config['auth_server']: "disabled", "enabled", "no_url"
    failed_attempts,   \* self.failed_attempts
    last_auth_attempt, \* self.last_auth_attempt
    authenticated,     \* self.authenticated
    auth_expiry,       \* self.auth_expiry (0 for None)
    now,               \* time.time(), in seconds
    ticks,             \* how often the clock has advanced
    failures,          \* history: the failed authenticate calls in a row, all of them
    counted,           \* history: those among them given a username and a password
    \* LoginScreen
    username_input,     \* self.username_input.text
    password_input,     \* self.password_input.text
    login_btn_disabled, \* self.login_btn.disabled
    threads,            \* the running login_background threads, each with its arguments
    clock,              \* the callbacks scheduled on the UI loop (Clock.schedule_once)
    attempts,           \* how many logins have been started
    sent,               \* history: the pair of the last portal request
    persisted,          \* history: the pair of the last login whose save returned True
    completion          \* history: the last completion callback that ran

vaultVars == <<dirs, fs, vault, nextKey, key_mode>>
authVars == <<server, failed_attempts, last_auth_attempt, authenticated, auth_expiry,
              now, ticks, failures, counted>>
loginVars == <<username_input, password_input, login_btn_disabled, threads, clock,
               attempts, sent, persisted, completion>>
vars == <<dirs, fs, vault, nextKey, key_mode, last, authVars, loginVars>>

(***************************************************************************)
(* Bounds and input sets                                                   *)
(***************************************************************************)
MaxKeys == 2
MaxTicks == 3

Vaults == {"v1", "v2"}
Roots == {"r1", "r2"}
Dirs == {"top"} \cup Roots
NoDir == "nodir"

Usernames == {"alice", "bob"}
Passwords == {"pw1", "pw2"}
Campuses == {"CampusA"}
Timestamps == {"t1"}
EmptyDict == [x \in {} |-> 0]
AdditionalData == {EmptyDict, [connection_count |-> 5], [remember |-> TRUE, password |-> "pwX"]}
Payloads == {[secret |-> "s1"], [data |-> "value"]}
Configs == {[theme |-> "dark"]}

\* Secure-data keys, each the sequence of the '/'-separated parts of the key string:
\* "a", "./a", "credentials", "../x", "../r2/credentials".
PlainKeys == {<<"a">>, <<"credentials">>}
LocalKeys == PlainKeys \cup {<<".", "a">>, <<"..", "x">>}
SecureKeys == LocalKeys \cup {<<"..", "r2", "credentials">>, <<"..", "r1", "credentials">>}

IOOutcomes == {"ok", "open_fail", "write_fail"}

\* A call that returned False.
Failed(op, v) == [op |-> op, v |-> v, ret |-> FALSE]

\* The history of failed authenticate calls: how many in a row, and when the
\* max_attempts-th of them was made.
NoFailures == [n |-> 0, at |-> 0, rejected |-> FALSE]

(***************************************************************************)
(* Python values                                                           *)
(***************************************************************************)
None == [none |-> TRUE]
Raise == [raise |-> TRUE]

DictGet(d, k, default) == IF k \in DOMAIN d THEN d[k] ELSE default
DictSet(d, k, x) == [f \in DOMAIN d \cup {k} |-> IF f = k THEN x ELSE d[f]]
DictUpdate(d, e) == [f \in DOMAIN d \cup DOMAIN e |-> IF f \in DOMAIN e THEN e[f] ELSE d[f]]

(***************************************************************************)
(* Bytes: a Fernet key, a Fernet token, JSON text, or bytes none of the    *)
(* readers accept (empty, truncated, overwritten).                         *)
(***************************************************************************)
NoFile == [kind |-> "none"]
Garbage == [kind |-> "garbage"]
KeyBytes(k) == [kind |-> "key", k |-> k]
NoCipher == 0

\* json.dumps / json.loads: every dict of the model has string keys and JSON-native
\* values, the text of a dict parses back to it, anything else is a parse error.
JsonDumps(val) == [kind |-> "json", val |-> val]
JsonLoads(bytes) == IF bytes.kind = "json" THEN bytes.val ELSE Raise

\* Fernet(key): a usable key is 32 url-safe base64-encoded bytes.
FernetOk(bytes) == bytes.kind = "key"

\* Fernet.encrypt / Fernet.decrypt: the token carries an HMAC under the key, so
\* decrypt raises InvalidToken unless the token was made under this key and is intact.
Encrypt(k, text) == [kind |-> "token", k |-> k, text |-> text, intact |-> TRUE]
DecryptUnchecked(k, bytes) == IF bytes.kind = "token" THEN bytes.text ELSE Raise
Decrypt(k, bytes) ==
    IF bytes.kind = "token" /\ bytes.k = k /\ bytes.intact THEN bytes.text ELSE Raise

(***************************************************************************)
(* Paths                                                                   *)
(***************************************************************************)
KeyName == <<"storage", "key">>
DataName == <<"credentials", "dat">>
ConfigName == <<"config", "json">>
Names == {KeyName, DataName, ConfigName, <<"a", "dat">>, <<"x", "dat">>}
Paths == [dir : Dirs, name : Names]

StorageDir(v) == IF v = "v1" THEN "r1" ELSE "r2"
key_file(v) == [dir |-> StorageDir(v), name |-> KeyName]
data_file(v) == [dir |-> StorageDir(v), name |-> DataName]
config_file(v) == [dir |-> StorageDir(v), name |-> ConfigName]

Parent(d) == "top"
Child(ds, d, c) == IF d = "top" /\ c \in Roots /\ c \in ds THEN c ELSE NoDir

\* The directory the operating system reaches from d along the parts of a path.
RECURSIVE Walk(_, _, _)
Walk(ds, d, parts) ==
    IF parts = <<>> \/ d = NoDir THEN d
    ELSE LET c == Head(parts) IN
         IF c = "." THEN Walk(ds, d, Tail(parts))
         ELSE IF c = ".." THEN Walk(ds, Parent(d), Tail(parts))
         ELSE Walk(ds, Child(ds, d, c), Tail(parts))

\* os.path.join(self.storage_dir, f'{key}.dat')
secure_file(v, key) ==
    [dir |-> Walk(dirs, StorageDir(v), SubSeq(key, 1, Len(key) - 1)),
     name |-> <<key[Len(key)], "dat">>]

Exists(f, p) == p.dir # NoDir /\ f[p] # NoFile

\* with open(p, 'wb') as fh: fh.write(bytes) -- open truncates, then write fills.
WriteFile(f, p, bytes, io) ==
    IF p.dir = NoDir \/ io = "open_fail" THEN [raised |-> TRUE, fs |-> f]
    ELSE IF io = "write_fail" THEN [raised |-> TRUE, fs |-> [f EXCEPT ![p] = Garbage]]
    ELSE [raised |-> FALSE, fs |-> [f EXCEPT ![p] = bytes]]

\* os.remove(p)
RemoveFile(f, p, io) ==
    IF io # "ok" THEN [raised |-> TRUE, fs |-> f]
    ELSE [raised |-> FALSE, fs |-> [f EXCEPT ![p] = NoFile]]

(***************************************************************************)
(* SecureStorage: key material                                             *)
(***************************************************************************)
RemoveOutcomes == {"ok", "fail"}
ReadOutcomes == {"ok", "fail"}

\* _create_new_key: derive a key under a fresh random salt, write it to the key file
\* and return it; any failure is logged and raised again.
_create_new_key(f, v, k, io) ==
    LET w == WriteFile(f, key_file(v), KeyBytes(k), io) IN
    [raised |-> w.raised, key |-> KeyBytes(k), fs |-> w.fs, created |-> TRUE]

\* _get_or_create_key: the bytes of an existing key file as they are; a new key when
\* there is no key file or reading it fails.
_get_or_create_key(f, v, k, rd, io) ==
    IF Exists(f, key_file(v))
    THEN IF rd = "ok"
         THEN [raised |-> FALSE, key |-> f[key_file(v)], fs |-> f, created |-> FALSE]
         ELSE _create_new_key(f, v, k, io)
    ELSE _create_new_key(f, v, k, io)

\* _init_encryption: self.cipher = Fernet(key); whatever fails is raised again, so
\* the constructor fails and there is no vault object.
_init_encryption(f, v, k, rd, io) ==
    LET g == _get_or_create_key(f, v, k, rd, io) IN
    IF g.raised \/ ~FernetOk(g.key)
    THEN [raised |-> TRUE, cipher |-> NoCipher, fs |-> g.fs, created |-> g.created]
    ELSE [raised |-> FALSE, cipher |-> g.key.k, fs |-> g.fs, created |-> g.created]

\* _set_secure_permissions: os.chmod(file_path, 0o600); a failure is logged only.
ChmodOutcomes == {"ok", "fail"}
_set_secure_permissions(mode, ch) == IF ch = "ok" THEN "0600" ELSE mode

\* The permission bits of the key file after _get_or_create_key: open(.., 'wb')
\* creates a missing file with the bits the process umask leaves ("umask": not
\* owner-only in general) and keeps the bits of an existing one; the chmod is reached
\* only when the write succeeded.
KeyFileMode(mode, existed, created, io, ch) ==
    IF ~created \/ io = "open_fail" THEN mode
    ELSE LET opened == IF existed THEN mode ELSE "umask" IN
         IF io = "ok" THEN _set_secure_permissions(opened, ch) ELSE opened

\* SecureStorage.__init__(storage_path): a process (re)start on the root of v.
Construct(v, rd, io, ch) ==
         LET e == _init_encryption(fs, v, nextKey, rd, io) IN
         /\ e.created => nextKey <= MaxKeys
         /\ dirs' = dirs \cup {StorageDir(v)}
         /\ fs' = e.fs
         /\ key_mode' = [key_mode EXCEPT ![v] =
                            KeyFileMode(key_mode[v], Exists(fs, key_file(v)),
                                        e.created, io, ch)]
         /\ vault' = [vault EXCEPT ![v] = [alive |-> ~e.raised, cipher |-> e.cipher]]
         /\ nextKey' = IF e.created THEN nextKey + 1 ELSE nextKey
         /\ last' = [op |-> "construct", v |-> v, ret |-> ~e.raised,
                     existed |-> Exists(fs, key_file(v)), rd |-> rd,
                     usable |-> FernetOk(fs[key_file(v)]), created |-> e.created]

\* __del__: the cipher is cleared and the object is gone.
Destroy(v) ==
    /\ vault[v].alive
    /\ vault' = [vault EXCEPT ![v] = [alive |-> FALSE, cipher |-> NoCipher]]
    /\ last' = [op |-> "del", v |-> v, ret |-> TRUE]
    /\ UNCHANGED <<dirs, fs, nextKey, key_mode>>

(***************************************************************************)
(* SecureStorage: credentials                                              *)
(***************************************************************************)
CredentialRecord(username, password, campus, remember, ts) ==
    [username |-> username, password |-> password, campus |-> campus,
     remember |-> remember, version |-> "1.0", created_at |-> ts]

Truthy(x) == x = TRUE

\* The redaction of load_credentials: no password unless 'remember' is set.
RedactAlways(data) == DictSet(data, "password", "")
RedactNever(data) == data
Redact(data) ==
    IF ~Truthy(DictGet(data, "remember", FALSE)) THEN DictSet(data, "password", "")
    ELSE data

save_credentials(v, username, password, campus, remember, additional_data, io) ==
    /\ vault[v].alive
    /\ \E ts \in Timestamps :
         LET data == DictUpdate(CredentialRecord(username, password, campus, remember, ts),
                                additional_data)
             w == IF vault[v].cipher = NoCipher THEN [raised |-> TRUE, fs |-> fs]
                  ELSE WriteFile(fs, data_file(v),
                                 Encrypt(vault[v].cipher, JsonDumps(data)), io)
         IN /\ fs' = w.fs
            /\ last' = IF w.raised THEN Failed("save_credentials", v)
                        ELSE [op |-> "save_credentials", v |-> v, ret |-> TRUE,
                              username |-> username, password |-> password,
                              campus |-> campus, remember |-> remember,
                              additional_data |-> additional_data]
    /\ UNCHANGED <<dirs, vault, nextKey, key_mode>>

\* What load_credentials returns: None, or the decrypted dict after redaction.
\* Every exception (InvalidToken, a JSON error) is caught and gives None.
LoadCredentialsFrom(f, cipher, p) ==
    IF ~Exists(f, p) THEN None
    ELSE IF cipher = NoCipher THEN None
    ELSE LET text == Decrypt(cipher, f[p]) IN
         IF text = Raise THEN None
         ELSE LET data == JsonLoads(text) IN
              IF data = Raise THEN None ELSE Redact(data)
load_credentials(v) == LoadCredentialsFrom(fs, vault[v].cipher, data_file(v))

LoadCredentialsCall(v) ==
    /\ vault[v].alive
    /\ last' = [op |-> "load_credentials", v |-> v, ret |-> load_credentials(v)]
    /\ UNCHANGED <<dirs, fs, vault, nextKey, key_mode>>

ClearCredentialsOn(f, v, io) ==
    IF Exists(f, data_file(v))
    THEN LET r == RemoveFile(f, data_file(v), io) IN [ret |-> ~r.raised, fs |-> r.fs]
    ELSE [ret |-> TRUE, fs |-> f]

clear_credentials(v, io) ==
    /\ vault[v].alive
    /\  LET r == ClearCredentialsOn(fs, v, io) IN
         /\ fs' = r.fs
         /\ last' = [op |-> "clear_credentials", v |-> v, ret |-> r.ret]
    /\ UNCHANGED <<dirs, vault, nextKey, key_mode>>

(***************************************************************************)
(* SecureStorage: configuration (plain JSON text, not encrypted)           *)
(***************************************************************************)
ConfigRecord(config, ts) == DictSet(DictSet(config, "version", "1.0"), "updated_at", ts)

save_config(v, config, io) ==
    /\ vault[v].alive
    /\ \E ts \in Timestamps :
         LET w == WriteFile(fs, config_file(v), JsonDumps(ConfigRecord(config, ts)), io) IN
         /\ fs' = w.fs
         /\ last' = IF w.raised THEN Failed("save_config", v)
                     ELSE [op |-> "save_config", v |-> v, ret |-> TRUE, config |-> config]
    /\ UNCHANGED <<dirs, vault, nextKey, key_mode>>

LoadConfigFrom(f, p) ==
    IF ~Exists(f, p) THEN None
    ELSE LET config == JsonLoads(f[p]) IN
         IF config = Raise THEN None ELSE config
load_config(v) == LoadConfigFrom(fs, config_file(v))

LoadConfigCall(v) ==
    /\ vault[v].alive
    /\ last' = [op |-> "load_config", v |-> v, ret |-> load_config(v)]
    /\ UNCHANGED <<dirs, fs, vault, nextKey, key_mode>>

ClearConfigOn(f, v, io) ==
    IF Exists(f, config_file(v))
    THEN LET r == RemoveFile(f, config_file(v), io) IN [ret |-> ~r.raised, fs |-> r.fs]
    ELSE [ret |-> TRUE, fs |-> f]

clear_config(v, io) ==
    /\ vault[v].alive
    /\  LET r == ClearConfigOn(fs, v, io) IN
         /\ fs' = r.fs
         /\ last' = [op |-> "clear_config", v |-> v, ret |-> r.ret]
    /\ UNCHANGED <<dirs, vault, nextKey, key_mode>>

(***************************************************************************)
(* SecureStorage: secure records, one file per key                         *)
(***************************************************************************)
SecureRecord(key, data, ts) ==
    [key |-> key, data |-> data, version |-> "1.0", created_at |-> ts]

save_secure_data(v, key, data, io) ==
    /\ vault[v].alive
    /\ \E ts \in Timestamps :
         LET w == IF vault[v].cipher = NoCipher THEN [raised |-> TRUE, fs |-> fs]
                  ELSE WriteFile(fs, secure_file(v, key),
                                 Encrypt(vault[v].cipher,
                                         JsonDumps(SecureRecord(key, data, ts))), io)
         IN /\ fs' = w.fs
            /\ last' = IF w.raised THEN [op |-> "save_secure_data", v |-> v,
                                          ret |-> FALSE, key |-> key]
                        ELSE [op |-> "save_secure_data", v |-> v, ret |-> TRUE,
                              key |-> key, data |-> data]
    /\ UNCHANGED <<dirs, vault, nextKey, key_mode>>

\* What load_secure_data returns: None, or stored_data.get('data', {}).
Payload(stored_data) == DictGet(stored_data, "data", EmptyDict)
LoadSecureFrom(f, cipher, p) ==
    IF ~Exists(f, p) THEN None
    ELSE IF cipher = NoCipher THEN None
    ELSE LET text == Decrypt(cipher, f[p]) IN
         IF text = Raise THEN None
         ELSE LET stored_data == JsonLoads(text) IN
              IF stored_data = Raise THEN None ELSE Payload(stored_data)
load_secure_data(v, key) == LoadSecureFrom(fs, vault[v].cipher, secure_file(v, key))

LoadSecureDataCall(v, key) ==
    /\ vault[v].alive
    /\ last' = [op |-> "load_secure_data", v |-> v, key |-> key,
                ret |-> load_secure_data(v, key)]
    /\ UNCHANGED <<dirs, fs, vault, nextKey, key_mode>>

delete_secure_data(v, key, io) ==
    /\ vault[v].alive
    /\  LET p == secure_file(v, key)
             r == IF Exists(fs, p) THEN RemoveFile(fs, p, io)
                  ELSE [raised |-> FALSE, fs |-> fs]
         IN /\ fs' = r.fs
            /\ last' = [op |-> "delete_secure_data", v |-> v, ret |-> ~r.raised, key |-> key]
    /\ UNCHANGED <<dirs, vault, nextKey, key_mode>>

(***************************************************************************)
(* SecureStorage: clear_all_data                                           *)
(***************************************************************************)
\* os.listdir(self.storage_dir), filtered: the '.dat' files of the storage directory
\* other than credentials.dat.
ListedDatFiles(f, v) ==
    {p \in Paths : /\ p.dir = StorageDir(v)
                   /\ f[p] # NoFile
                   /\ p.name[2] = "dat"
                   /\ p.name # DataName}

RemoveAll(f, S) == [p \in Paths |-> IF p \in S THEN NoFile ELSE f[p]]

\* The loop over the listing is inside one try: the files of `removed` are deleted,
\* and when that is not the whole listing, the os.remove after them raised (on the
\* file raised_on) and ended the loop.  os.listdir yields the files in any order.
clear_all_data(v, io1, io2, io3, io4) ==
    /\ vault[v].alive
    /\  LET c1 == ClearCredentialsOn(fs, v, io1)
             c2 == ClearConfigOn(c1.fs, v, io2)
             c3 == IF Exists(c2.fs, key_file(v)) THEN RemoveFile(c2.fs, key_file(v), io3)
                   ELSE [raised |-> FALSE, fs |-> c2.fs]
             listed == ListedDatFiles(c3.fs, v)
         IN \E removed \in (IF io4 = "ok" THEN {listed} ELSE SUBSET listed \ {listed}) :
            \E raised_on \in (IF removed = listed THEN {None} ELSE listed \ removed) :
              /\ fs' = RemoveAll(c3.fs, removed)
              /\ key_mode' = IF Exists(c3.fs, key_file(v)) THEN key_mode
                              ELSE [key_mode EXCEPT ![v] = "none"]
              /\ last' = [op |-> "clear_all_data", v |-> v,
                          ret |-> c1.ret /\ c2.ret /\ ~c3.raised /\ removed = listed,
                          raised |-> <<~c1.ret, ~c2.ret, c3.raised>>,
                          listed |-> listed, raised_on |-> raised_on]
    /\ UNCHANGED <<dirs, vault, nextKey>>

(***************************************************************************)
(* The environment: a stored file is damaged (a byte flipped, or truncated) *)
(***************************************************************************)
Damaged(bytes, how) ==
    IF bytes.kind = "token" /\ how = "flip" THEN [bytes EXCEPT !.intact = FALSE]
    ELSE Garbage

CorruptFile(p) ==
    /\ Exists(fs, p)
    /\ \E how \in {"flip", "truncate"} :
         /\ fs' = [fs EXCEPT ![p] = Damaged(fs[p], how)]
         /\ fs' # fs
    /\ last' = [op |-> "corrupt", v |-> "env", ret |-> TRUE, path |-> p]
    /\ UNCHANGED <<dirs, vault, nextKey, key_mode>>

(***************************************************************************)
(* AuthService.  A string is the sequence of its characters.               *)
(***************************************************************************)
max_attempts == 5
lockout_duration == 300
StartTime == 2 * lockout_duration

Str(n, c) == [i \in 1..n |-> c]
AlnumChars == {"a", "b", "c", "x", "1", "2"}

\* re.match(r'^[...]+$', s): one or more characters of the class, then the end of the
\* string or a single trailing newline.
ReMatchClass(s, class) ==
    /\ Len(s) >= 1
    /\ \A i \in 1..(Len(s) - 1) : s[i] \in class
    /\ \/ s[Len(s)] \in class
       \/ s[Len(s)] = "\n" /\ Len(s) >= 2

_validate_username_format(username) ==
    IF Len(username) < 3 \/ Len(username) > 50 THEN FALSE
    ELSE IF ~ReMatchClass(username, AlnumChars \cup {".", "_", "-"}) THEN FALSE
    ELSE IF username[1] = "." \/ username[Len(username)] = "." THEN FALSE
    ELSE TRUE

_validate_password_format(password) ==
    IF Len(password) < 6 THEN FALSE
    ELSE IF Len(password) > 128 THEN FALSE
    ELSE TRUE

AuthUsernames == {<<>>, <<"a", "b">>, <<"a", "b", "c">>, <<".", "a", "b">>}
AuthPasswords == {<<>>, Str(5, "x"), Str(6, "x")}
\* What the server can answer; no request is made when no server is configured or
\* its URL is missing.
ServerResponses ==
    IF server = "enabled" THEN {"success", "rejected", "status", "network"}
    ELSE {"no_request"}
TickSteps == {1, lockout_duration - 1}

\* is_locked_out: locked while fewer than lockout_duration seconds have passed since
\* the last counted failure; once they have passed, the counter is reset.
IsLockedOutInclusive(fa, la, t) ==
    IF fa >= max_attempts
    THEN IF t - la <= lockout_duration
         THEN [locked |-> TRUE, fa |-> fa, la |-> la]
         ELSE [locked |-> FALSE, fa |-> 0, la |-> 0]
    ELSE [locked |-> FALSE, fa |-> fa, la |-> la]
\* is_locked_out without the reset of the two fields once the lockout is over.
IsLockedOutNoReset(fa, la, t) ==
    [locked |-> fa >= max_attempts /\ t - la < lockout_duration, fa |-> fa, la |-> la]
is_locked_out(fa, la, t) ==
    IF fa >= max_attempts
    THEN IF t - la < lockout_duration
         THEN [locked |-> TRUE, fa |-> fa, la |-> la]
         ELSE [locked |-> FALSE, fa |-> 0, la |-> 0]
    ELSE [locked |-> FALSE, fa |-> fa, la |-> la]

\* The outcome of a call: what it returns and the fields it leaves.
Outcome(ret, fa, la, auth, exp) ==
    [ret |-> ret, fa |-> fa, la |-> la, auth |-> auth, exp |-> exp]

_authenticate_local(lk, username, password) ==
    IF ~_validate_username_format(username)
    THEN Outcome(FALSE, lk.fa + 1, now, authenticated, auth_expiry)
    ELSE IF ~_validate_password_format(password)
    THEN Outcome(FALSE, lk.fa + 1, now, authenticated, auth_expiry)
    ELSE Outcome(TRUE, 0, lk.la, TRUE, now + 3600)

\* resp: what the server answers (success, a rejection, a non-200 status, a network
\* error); expires_in is taken at its default.
_authenticate_with_server(lk, resp) ==
    IF server = "no_url" THEN Outcome(FALSE, lk.fa, lk.la, authenticated, auth_expiry)
    ELSE IF resp = "success" THEN Outcome(TRUE, 0, lk.la, TRUE, now + 3600)
    ELSE Outcome(FALSE, lk.fa + 1, now, authenticated, auth_expiry)

\* The credentials a call should accept: well-formed ones for local authentication,
\* the ones the server accepts otherwise.
ValidCredentials(username, password, resp) ==
    /\ username # <<>>
    /\ password # <<>>
    /\ IF server = "disabled"
       THEN _validate_username_format(username) /\ _validate_password_format(password)
       ELSE server = "enabled" /\ resp = "success"

\* History of failed calls.  A lockout lasts lockout_duration seconds from the
\* max_attempts-th failure in a row; a failure after it starts a new count.
InLockout(g, t) == g.n = max_attempts /\ t - g.at < lockout_duration
LockoutOver(g, t) == g.n = max_attempts /\ t - g.at >= lockout_duration
Recorded(g, counts, ret, valid, t) ==
    IF ret THEN NoFailures
    ELSE IF InLockout(g, t) THEN [g EXCEPT !.rejected = g.rejected \/ valid]
    ELSE IF ~counts THEN (IF LockoutOver(g, t) THEN NoFailures ELSE g)
    ELSE LET n == IF LockoutOver(g, t) THEN 1 ELSE g.n + 1 IN
         [n |-> n, at |-> IF n = max_attempts THEN t ELSE 0, rejected |-> FALSE]
Seen(g, t) == [n |-> g.n, elapsed |-> t - g.at, rejected |-> g.rejected]

authenticate(username, password, resp) ==
    LET lk == is_locked_out(failed_attempts, last_auth_attempt, now)
        given == username # <<>> /\ password # <<>>
        r == IF lk.locked
             THEN Outcome(FALSE, lk.fa, lk.la, authenticated, auth_expiry)
             ELSE IF ~given
             THEN Outcome(FALSE, lk.fa, lk.la, authenticated, auth_expiry)
             ELSE IF server # "disabled"
             THEN _authenticate_with_server(lk, resp)
             ELSE _authenticate_local(lk, username, password)
        valid == ValidCredentials(username, password, resp)
    IN /\ failed_attempts' = r.fa
       /\ last_auth_attempt' = r.la
       /\ authenticated' = r.auth
       /\ auth_expiry' = r.exp
       /\ failures' = Recorded(failures, TRUE, r.ret, valid, now)
       /\ counted' = Recorded(counted, given, r.ret, valid, now)
       /\ last' = [op |-> "authenticate", v |-> "auth", ret |-> r.ret, valid |-> valid,
                   given |-> given,
                   failures |-> Seen(failures, now), counted |-> Seen(counted, now)]
       /\ UNCHANGED <<server, now, ticks>>

\* is_locked_out() called from outside (also through get_lockout_time_remaining).
IsLockedOutCall ==
    LET lk == is_locked_out(failed_attempts, last_auth_attempt, now) IN
    /\ failed_attempts' = lk.fa
    /\ last_auth_attempt' = lk.la
    /\ last' = [op |-> "is_locked_out", v |-> "auth", ret |-> lk.locked]
    /\ UNCHANGED <<server, authenticated, auth_expiry, now, ticks, failures, counted>>

logout ==
    /\ authenticated' = FALSE
    /\ auth_expiry' = 0
    /\ last' = [op |-> "logout", v |-> "auth", ret |-> TRUE]
    /\ UNCHANGED <<server, failed_attempts, last_auth_attempt, now, ticks, failures, counted>>

Tick(d) ==
    /\ ticks < MaxTicks
    /\ now' = now + d
    /\ ticks' = ticks + 1
    /\ last' = [op |-> "tick", v |-> "auth", ret |-> TRUE]
    /\ UNCHANGED <<server, failed_attempts, last_auth_attempt, authenticated, auth_expiry,
                   failures, counted>>

(***************************************************************************)
(* Specifications                                                          *)
(***************************************************************************)
NoCall == [op |-> "init", v |-> "v1", ret |-> TRUE]

\* AuthService() as constructed, with the default configuration.
AuthIdle ==
    /\ server = "disabled"
    /\ failed_attempts = 0
    /\ last_auth_attempt = 0
    /\ authenticated = FALSE
    /\ auth_expiry = 0
    /\ now = StartTime
    /\ ticks = 0
    /\ failures = NoFailures
    /\ counted = NoFailures

\* LoginScreen with empty fields and no login under way.
LoginIdle ==
    /\ username_input = <<>>
    /\ password_input = <<>>
    /\ login_btn_disabled = FALSE
    /\ threads = <<>>
    /\ clock = <<>>
    /\ attempts = 0
    /\ sent = None
    /\ persisted = None
    /\ completion = None

\* One vault, just constructed on the empty storage root r1.
Init ==
    /\ dirs = {"top", "r1"}
    /\ fs = [p \in Paths |-> IF p = key_file("v1") THEN KeyBytes(1) ELSE NoFile]
    /\ vault = [v \in Vaults |-> IF v = "v1" THEN [alive |-> TRUE, cipher |-> 1]
                                 ELSE [alive |-> FALSE, cipher |-> NoCipher]]
    /\ nextKey = 2
    /\ last = NoCall
    /\ key_mode = [v \in Vaults |-> IF v = "v1" THEN "0600" ELSE "none"]
    /\ AuthIdle
    /\ LoginIdle

Lifecycle(v, rds, ios) ==
    \/ \E rd \in rds, io \in ios : Construct(v, rd, io, "ok")
    \/ Destroy(v)

CredentialOps(v, adds, ios, rms) ==
    \/ \E u \in Usernames, pw \in Passwords, c \in Campuses, r \in BOOLEAN,
          a \in adds, io \in ios : save_credentials(v, u, pw, c, r, a, io)
    \/ LoadCredentialsCall(v)
    \/ \E io \in rms : clear_credentials(v, io)

ConfigOps(v, ios, rms) ==
    \/ \E cfg \in Configs, io \in ios : save_config(v, cfg, io)
    \/ LoadConfigCall(v)
    \/ \E io \in rms : clear_config(v, io)

SecureOps(v, keys, ios, rms) ==
    \/ \E k \in keys, d \in Payloads, io \in ios : save_secure_data(v, k, d, io)
    \/ \E k \in keys : LoadSecureDataCall(v, k)
    \/ \E k \in keys, io \in rms : delete_secure_data(v, k, io)

ClearAll(v, rms) ==
    \E io1, io2, io3, io4 \in rms : clear_all_data(v, io1, io2, io3, io4)

\* Spec: the credential and configuration records of one vault over its whole life,
\* with failing writes and deletions and a damaged key, credentials or config file.
Next ==
    /\ UNCHANGED <<authVars, loginVars>>
    /\ \/ Lifecycle("v1", ReadOutcomes, IOOutcomes)
       \/ CredentialOps("v1", AdditionalData, IOOutcomes, RemoveOutcomes)
       \/ ConfigOps("v1", IOOutcomes, RemoveOutcomes)
       \/ ClearAll("v1", RemoveOutcomes)
       \/ \E p \in {key_file("v1"), data_file("v1"), config_file("v1")} : CorruptFile(p)

Spec == Init /\ [][Next]_vars

(***************************************************************************)
(* Claims about the credential record                                      *)
(***************************************************************************)
CredentialFields == {"username", "password", "campus", "remember"}

\* The last call was a successful save_credentials(username, password, campus,
\* remember) whose additional data, if any, names none of the four fields.
SavedCredentials(remember) ==
    /\ last.op = "save_credentials"
    /\ last.ret
    /\ last.remember = remember
    /\ DOMAIN last.additional_data \cap CredentialFields = {}

\* C1: whenever save_credentials(username, password, campus, remember=True) has
\* returned True, load_credentials() on that vault returns a record (not None) whose
\* username, password, campus and remember are the saved ones - whatever was stored
\* before, so after any sequence of saves it is the record of the last save.
C1_RoundTrip ==
    SavedCredentials(TRUE) =>
        LET rec == load_credentials(last.v) IN
        /\ rec # None
        /\ rec.username = last.username
        /\ rec.password = last.password
        /\ rec.campus = last.campus
        /\ rec.remember = TRUE

C1_Witness ==
    /\ SavedCredentials(TRUE)
    /\ last.username = "bob"
    /\ last.password = "pw2"
    /\ load_credentials("v1") # None
    /\ load_credentials("v1").password = "pw2"
    /\ load_credentials("v1").username = "bob"

\* C2: whenever save_credentials(username, password, campus, remember=False) has
\* returned True, load_credentials() returns a record with password "" and remember
\* False, and with the saved username and campus - although the file on disk still
\* holds the password that was saved.
C2_RedactionOnRead ==
    SavedCredentials(FALSE) =>
        LET rec == load_credentials(last.v) IN
        /\ rec # None
        /\ rec.password = ""
        /\ rec.remember = FALSE
        /\ rec.username = last.username
        /\ rec.campus = last.campus

C2_Witness ==
    /\ SavedCredentials(FALSE)
    /\ last.password = "pw1"
    /\ fs[data_file("v1")].kind = "token"
    /\ fs[data_file("v1")].text.val.password = "pw1"
    /\ load_credentials("v1") # None
    /\ load_credentials("v1").password = ""

(***************************************************************************)
(* Claims about decryption and the key file                                *)
(***************************************************************************)
\* SpecDecrypt: credentials and one secure record under a key that can be lost or
\* regenerated, with files damaged on disk.
NextDecrypt ==
    /\ UNCHANGED <<authVars, loginVars>>
    /\ \/ Lifecycle("v1", ReadOutcomes, IOOutcomes)
       \/ CredentialOps("v1", {EmptyDict}, IOOutcomes, {"ok"})
       \/ SecureOps("v1", {<<"a">>}, IOOutcomes, {"ok"})
       \/ ClearAll("v1", {"ok"})
       \/ \E p \in {key_file("v1"), data_file("v1"), secure_file("v1", <<"a">>)} : CorruptFile(p)

SpecDecrypt == Init /\ [][NextDecrypt]_vars

\* The bytes are a ciphertext produced under the key the vault holds, undamaged.
CiphertextUnder(cipher, bytes) ==
    bytes.kind = "token" /\ bytes.k = cipher /\ bytes.intact

\* C3: whenever the credentials file (a secure-data file) exists and is not an
\* undamaged ciphertext made under the vault's current key, load_credentials()
\* (load_secure_data(key)) returns None: no exception, no part of the plaintext.
C3_FailClosedDecrypt ==
    vault["v1"].alive =>
        /\ (Exists(fs, data_file("v1"))
              /\ ~CiphertextUnder(vault["v1"].cipher, fs[data_file("v1")]))
           => load_credentials("v1") = None
        /\ (Exists(fs, secure_file("v1", <<"a">>))
              /\ ~CiphertextUnder(vault["v1"].cipher, fs[secure_file("v1", <<"a">>)]))
           => load_secure_data("v1", <<"a">>) = None

\* The credentials file is an undamaged ciphertext under a key the vault no longer
\* holds, and the secure-data file had a byte flipped.
C3_Witness ==
    /\ vault["v1"].alive
    /\ fs[data_file("v1")].kind = "token"
    /\ fs[data_file("v1")].intact
    /\ fs[data_file("v1")].k # vault["v1"].cipher
    /\ fs[secure_file("v1", <<"a">>)].kind = "token"
    /\ ~fs[secure_file("v1", <<"a">>)].intact
    /\ fs[secure_file("v1", <<"a">>)].k = vault["v1"].cipher
    /\ load_credentials("v1") = None
    /\ load_secure_data("v1", <<"a">>) = None

\* SpecRuns: successive runs of the application on one storage root, no I/O failure
\* and no damage to any file.
NextRuns ==
    /\ UNCHANGED <<authVars, loginVars>>
    /\ \/ Lifecycle("v1", {"ok"}, {"ok"})
       \/ CredentialOps("v1", {EmptyDict}, {"ok"}, {"ok"})
       \/ SecureOps("v1", {<<"a">>}, {"ok"}, {"ok"})
       \/ ClearAll("v1", {"ok"})

SpecRuns == Init /\ [][NextRuns]_vars

\* C4: a vault constructed on a root whose key file exists takes the bytes of that
\* file as its key and leaves the file as it is, and every credential or secure-data
\* record an earlier instance saved on that root is returned by its load.
C4_KeyReuse ==
    [][(last'.op = "construct" /\ last'.ret /\ last'.existed) =>
          /\ fs'[key_file("v1")] = fs[key_file("v1")]
          /\ KeyBytes(vault'["v1"].cipher) = fs[key_file("v1")]
          /\ fs[data_file("v1")].kind = "token"
             => load_credentials("v1")' = Redact(fs[data_file("v1")].text.val)
          /\ fs[secure_file("v1", <<"a">>)].kind = "token"
             => load_secure_data("v1", <<"a">>)' = fs[secure_file("v1", <<"a">>)].text.val.data
      ]_vars

\* SpecKeyFile: runs on one storage root whose key file may be damaged or unreadable;
\* every write succeeds.
NextKeyFile ==
    /\ UNCHANGED <<authVars, loginVars>>
    /\ \/ Lifecycle("v1", ReadOutcomes, {"ok"})
       \/ CredentialOps("v1", {EmptyDict}, {"ok"}, {"ok"})
       \/ CorruptFile(key_file("v1"))

SpecKeyFile == Init /\ [][NextKeyFile]_vars

\* C5: constructing a vault on a root whose key file exists but cannot be read, or
\* holds no usable key, succeeds with a freshly generated key that is written to the
\* key file.
C5_KeyRegeneration ==
    (last.op = "construct" /\ last.existed /\ (last.rd = "fail" \/ ~last.usable)) =>
        /\ last.ret
        /\ last.created
        /\ vault[last.v].alive
        /\ vault[last.v].cipher # NoCipher
        /\ fs[key_file(last.v)] = KeyBytes(vault[last.v].cipher)

(***************************************************************************)
(* Claims about the record families and the storage roots                  *)
(***************************************************************************)
\* SpecStore: the three record families of one vault and clear_all_data; secure-data
\* keys are "a", "./a", "credentials" and "../x".  Writes succeed, deletions may fail.
NextStore ==
    /\ UNCHANGED <<authVars, loginVars>>
    /\ \/ CredentialOps("v1", {EmptyDict}, {"ok"}, {"ok"})
       \/ ConfigOps("v1", {"ok"}, {"ok"})
       \/ SecureOps("v1", LocalKeys, {"ok"}, {"ok"})
       \/ ClearAll("v1", RemoveOutcomes)

SpecStore == Init /\ [][NextStore]_vars

\* C6: after clear_all_data() has returned True, load_credentials(), load_config()
\* and load_secure_data(k) for every key k return None, and the storage directory
\* exists and holds no key, credentials, config or secure-data file.
C6_ClearAllPostcondition ==
    (last.op = "clear_all_data" /\ last.ret) =>
        /\ load_credentials("v1") = None
        /\ load_config("v1") = None
        /\ \A k \in LocalKeys : load_secure_data("v1", k) = None
        /\ "r1" \in dirs
        /\ \A p \in Paths : p.dir = "r1" => fs[p] = NoFile

\* SpecSecure: sequences of save_secure_data, load_secure_data and delete_secure_data
\* on one vault, none of them failing.
NextSecure ==
    /\ UNCHANGED <<authVars, loginVars>>
    /\ SecureOps("v1", LocalKeys, {"ok"}, {"ok"})

SpecSecure == Init /\ [][NextSecure]_vars

\* C8: a successful save_secure_data(k, d) makes load_secure_data(k) return d, a
\* successful delete_secure_data(k) makes it return None, and neither changes what
\* load_secure_data returns for any other key.
C8_SecureRoundTrip ==
    [][\A k \in LocalKeys :
          /\ (last'.op = "save_secure_data" /\ last'.ret /\ last'.key = k)
             => load_secure_data("v1", k)' = last'.data
          /\ (last'.op = "delete_secure_data" /\ last'.ret /\ last'.key = k)
             => load_secure_data("v1", k)' = None
          /\ (last'.op \in {"save_secure_data", "delete_secure_data"} /\ last'.key # k)
             => load_secure_data("v1", k)' = load_secure_data("v1", k)
      ]_vars

\* C9: save_secure_data and delete_secure_data leave the results of load_credentials()
\* and load_config() as they were, and save_credentials and clear_credentials leave
\* the result of load_secure_data(k) as it was, for every key k (so a key never
\* saved stays absent).
C9_FamilyIsolation ==
    [][/\ last'.op \in {"save_secure_data", "delete_secure_data"}
          => /\ load_credentials("v1")' = load_credentials("v1")
             /\ load_config("v1")' = load_config("v1")
       /\ last'.op \in {"save_credentials", "clear_credentials"}
          => \A k \in LocalKeys : load_secure_data("v1", k)' = load_secure_data("v1", k)
      ]_vars

\* SpecIso: two vaults, constructed on the sibling storage roots r1 and r2.
InitIso ==
    /\ dirs = {"top", "r1", "r2"}
    /\ fs = [p \in Paths |-> IF p = key_file("v1") THEN KeyBytes(1)
                             ELSE IF p = key_file("v2") THEN KeyBytes(2) ELSE NoFile]
    /\ vault = [v \in Vaults |-> [alive |-> TRUE, cipher |-> IF v = "v1" THEN 1 ELSE 2]]
    /\ nextKey = 3
    /\ last = NoCall
    /\ key_mode = [v \in Vaults |-> "0600"]
    /\ AuthIdle
    /\ LoginIdle

Other(v) == IF v = "v1" THEN "v2" ELSE "v1"
KeysInto(v) == {<<"a">>, <<"..", StorageDir(Other(v)), "credentials">>}

NextIso ==
    /\ UNCHANGED <<authVars, loginVars>>
    /\ \E v \in Vaults :
           \/ Lifecycle(v, {"ok"}, {"ok"})
           \/ CredentialOps(v, {EmptyDict}, {"ok"}, {"ok"})
           \/ SecureOps(v, KeysInto(v), {"ok"}, {"ok"})

SpecIso == InitIso /\ [][NextIso]_vars

\* C10: two vaults on different storage roots hold different keys, a call on one
\* vault changes no file of the other root, and a vault's load_credentials() returns
\* what that vault saved last.
C10_VaultIsolation ==
    [][/\ (vault'["v1"].alive /\ vault'["v2"].alive)
          => vault'["v1"].cipher # vault'["v2"].cipher
       /\ \A v \in Vaults :
            last'.v = v =>
               \A p \in Paths : p.dir = StorageDir(Other(v)) => fs'[p] = fs[p]
       /\ (last'.op = "save_credentials" /\ last'.ret /\ last'.remember)
          => \A v \in Vaults :
                last'.v = v =>
                   /\ load_credentials(v)' # None
                   /\ load_credentials(v)'.username = last'.username
                   /\ load_credentials(v)'.password = last'.password
      ]_vars

(***************************************************************************)
(* Claims about the lockout                                                *)
(***************************************************************************)
\* SpecAuth: one AuthService, with no auth server, with one, or with one whose URL
\* is missing; the vault is left alone.
InitAuth ==
    /\ Init!1 /\ Init!2 /\ Init!3 /\ Init!4 /\ Init!5 /\ Init!6
    /\ server \in {"disabled", "enabled", "no_url"}
    /\ failed_attempts = 0
    /\ last_auth_attempt = 0
    /\ authenticated = FALSE
    /\ auth_expiry = 0
    /\ now = StartTime
    /\ ticks = 0
    /\ failures = NoFailures
    /\ counted = NoFailures
    /\ LoginIdle

NextAuth ==
    /\ UNCHANGED <<vaultVars, loginVars>>
    /\ \/ \E u \in AuthUsernames, pw \in AuthPasswords, resp \in ServerResponses :
             authenticate(u, pw, resp)
       \/ IsLockedOutCall
       \/ logout
       \/ \E d \in TickSteps : Tick(d)

SpecAuth == InitAuth /\ [][NextAuth]_vars

\* What C7 says of a call, g being the failed calls in a row before it: during the
\* lockout_duration seconds after the max_attempts-th of them the call returns False
\* whatever its credentials; after that a call with valid credentials returns True
\* and leaves failed_attempts at 0.
LockoutHolds(g) ==
    /\ (g.n = max_attempts /\ g.elapsed < lockout_duration) => ~last.ret
    /\ (g.n = max_attempts /\ g.elapsed >= lockout_duration /\ last.valid)
       => (last.ret /\ failed_attempts = 0)

\* C7 as stated: the failed calls in a row are all the authenticate calls that
\* returned False.
C7_LockoutAnyFailure ==
    last.op = "authenticate" => LockoutHolds(last.failures)

\* C7, amended: the failed calls in a row are the authenticate calls that were given
\* a non-empty username and a non-empty password and returned False.
C7_Lockout ==
    last.op = "authenticate" => LockoutHolds(last.counted)

\* A valid call was rejected during the lockout, and exactly lockout_duration seconds
\* after the fifth failure a valid call has succeeded.
C7_Witness ==
    /\ last.op = "authenticate"
    /\ last.counted.n = max_attempts
    /\ last.counted.elapsed = lockout_duration
    /\ last.counted.rejected
    /\ last.valid
    /\ last.ret
    /\ failed_attempts = 0

(***************************************************************************)
(* Claims about how files are written and deleted                          *)
(***************************************************************************)
\* C11: a save_credentials on a vault that holds a loadable record leaves a
\* loadable record, whether it succeeds or fails: the old one when it returns False
\* (the state a reader sees during the write is the state a failed write leaves).
C11_AtomicWrite ==
    [][\A v \in Vaults :
          (last'.op = "save_credentials" /\ last'.v = v /\ load_credentials(v) # None)
          => /\ load_credentials(v)' # None
             /\ ~last'.ret => load_credentials(v)' = load_credentials(v)]_vars

\* SpecClear: credentials, configuration and the two secure records "a" and "x" of one
\* vault, with deletions that can fail.
NextClear ==
    /\ UNCHANGED <<authVars, loginVars>>
    /\ \/ \E u \in {"alice"}, a \in {EmptyDict}, io \in {"ok"} :
             save_credentials("v1", u, "pw1", "CampusA", TRUE, a, io)
       \/ \E cfg \in Configs, io \in {"ok"} : save_config("v1", cfg, io)
       \/ \E k \in {<<"a">>, <<"x">>}, d \in Payloads, io \in {"ok"} :
             save_secure_data("v1", k, d, io)
       \/ ClearAll("v1", RemoveOutcomes)
       \/ \E rd \in {"ok"}, io \in {"ok"} : Construct("v1", rd, io, "ok")

SpecClear == Init /\ [][NextClear]_vars

\* C12: clear_all_data attempts every deletion: afterwards the credentials file, the
\* configuration file, the key file and every listed secure-data file is gone unless
\* its own deletion raised, and the call returns True exactly when none raised.
C12_ClearAllAttemptsAll ==
    last.op = "clear_all_data" =>
        /\ ~last.raised[1] => ~Exists(fs, data_file(last.v))
        /\ ~last.raised[2] => ~Exists(fs, config_file(last.v))
        /\ ~last.raised[3] => ~Exists(fs, key_file(last.v))
        /\ \A p \in last.listed : p # last.raised_on => ~Exists(fs, p)
        /\ last.ret <=> (last.raised = <<FALSE, FALSE, FALSE>> /\ last.raised_on = None)

\* C15: a call on a vault creates, overwrites or deletes no file outside the storage
\* root of that vault, whatever the key of save_secure_data and delete_secure_data.
C15_RootContainment ==
    [][\A p \in Paths :
          (last'.v \in Vaults /\ p.dir # StorageDir(last'.v)) => fs'[p] = fs[p]]_vars

(***************************************************************************)
(* Claims about file permissions                                           *)
(***************************************************************************)
\* SpecKeyMode: the key file over constructions whose write or chmod can fail, and
\* over clear_all_data, which removes it.
NextKeyMode ==
    /\ UNCHANGED <<authVars, loginVars>>
    /\ \/ \E rd \in ReadOutcomes, io \in IOOutcomes, ch \in ChmodOutcomes :
             Construct("v1", rd, io, ch)
       \/ Destroy("v1")
       \/ CredentialOps("v1", {EmptyDict}, {"ok"}, {"ok"})
       \/ ClearAll("v1", RemoveOutcomes)

SpecKeyMode == Init /\ [][NextKeyMode]_vars

\* C16: in every state in which the key file of a vault exists, its permission bits
\* are 0600: read and write for the owning user, nothing for anyone else.
C16_KeyFilePermission ==
    \A v \in Vaults : Exists(fs, key_file(v)) => key_mode[v] = "0600"

(***************************************************************************)
(* InputValidator (utils/validators.py).  A Python value is None, an int, a *)
(* str or a bool; a str is the sequence of its code points.                *)
(***************************************************************************)
PyStr(s) == [str |-> s]
PyInt(n) == [int |-> n]
IsStr(x) == "str" \in DOMAIN x

\* `not x`: None, 0 and the empty string are false.
PyNot(x) ==
    \/ x = None
    \/ "int" \in DOMAIN x /\ x.int = 0
    \/ IsStr(x) /\ x.str = <<>>

\* The first line of every validate_X: `if not x or not isinstance(x, str)`.
NotAString(x) == PyNot(x) \/ ~IsStr(x)

\* The characters str.strip() removes and str.isspace() accepts.
Whitespace ==
    (9..13) \cup (28..32) \cup {133, 160, 5760} \cup (8192..8202)
    \cup {8232, 8233, 8239, 8287, 12288}

Strip(s) ==
    LET idx == {i \in 1..Len(s) : s[i] \notin Whitespace} IN
    IF idx = {} THEN <<>>
    ELSE SubSeq(s, CHOOSE i \in idx : \A j \in idx : i <= j,
                   CHOOSE i \in idx : \A j \in idx : i >= j)

IsSpace(s) == Len(s) >= 1 /\ \A i \in 1..Len(s) : s[i] \in Whitespace

\* re.match(r'^[class]+$', s): one or more characters of the class, then the end of
\* the string or one final newline.
ReMatchSet(s, class) ==
    /\ Len(s) >= 1
    /\ \A i \in 1..(Len(s) - 1) : s[i] \in class
    /\ \/ s[Len(s)] \in class
       \/ s[Len(s)] = 10 /\ Len(s) >= 2

\* [a-zA-Z0-9._@-]
UsernameClass == (97..122) \cup (65..90) \cup (48..57) \cup {46, 95, 64, 45}

validate_username(username) ==
    IF NotAString(username) THEN FALSE
    ELSE LET u == Strip(username.str) IN
         IF Len(u) < 2 \/ Len(u) > 100 THEN FALSE
         ELSE IF ~ReMatchSet(u, UsernameClass) THEN FALSE
         ELSE TRUE

validate_password(password) ==
    IF NotAString(password) THEN FALSE
    ELSE IF Len(password.str) < 4 \/ Len(password.str) > 256 THEN FALSE
    ELSE IF IsSpace(password.str) THEN FALSE
    ELSE TRUE

validate_campus_ssid(ssid) ==
    IF NotAString(ssid) THEN FALSE
    ELSE LET s == Strip(ssid.str) IN
         IF Len(s) < 1 \/ Len(s) > 32 THEN FALSE
         ELSE IF \E i \in 1..Len(s) : s[i] < 32 \/ s[i] = 127 THEN FALSE
         ELSE TRUE

sanitize_input(input_str, max_length) ==
    IF NotAString(input_str) THEN PyStr(<<>>)
    ELSE LET sanitized == SelectSeq(input_str.str, LAMBDA c : c >= 32 \/ c \in {9, 10, 13})
             cut == IF Len(sanitized) > max_length THEN SubSeq(sanitized, 1, max_length)
                    ELSE sanitized
         IN PyStr(Strip(cut))

\* clean_ssid tests `not ssid` only: ssid.strip() on a value that is no str raises
\* AttributeError.
clean_ssid(ssid) ==
    IF PyNot(ssid) THEN PyStr(<<>>)
    ELSE IF ~IsStr(ssid) THEN Raise
    ELSE LET stripped == Strip(ssid.str)
             cleaned == SelectSeq(stripped, LAMBDA c : c >= 32)
         IN PyStr(IF Len(cleaned) > 32 THEN SubSeq(cleaned, 1, 32) ELSE cleaned)

\* The error message of a field that did not validate; len(x) in these branches is a
\* TypeError on a value that is no str.
Message(text) == [error |-> text]
UsernameError(username) ==
    IF PyNot(username) THEN Message("Username cannot be empty")
    ELSE IF ~IsStr(username) THEN Raise
    ELSE IF Len(username.str) < 2 THEN Message("Username must be at least 2 characters")
    ELSE IF Len(username.str) > 100 THEN Message("Username cannot exceed 100 characters")
    ELSE Message("Username contains invalid characters")

PasswordError(password) ==
    IF PyNot(password) THEN Message("Password cannot be empty")
    ELSE IF ~IsStr(password) THEN Raise
    ELSE IF Len(password.str) < 4 THEN Message("Password must be at least 4 characters")
    ELSE IF Len(password.str) > 256 THEN Message("Password cannot exceed 256 characters")
    ELSE Message("Password is invalid")

\* The username is handled first: its exception leaves before the password is looked at.
validate_credentials_format(username, password) ==
    LET uv == validate_username(username)
        pv == validate_password(password)
        ue == IF uv THEN Message("") ELSE UsernameError(username)
        pe == IF pv THEN Message("") ELSE PasswordError(password)
    IN IF ue = Raise \/ pe = Raise THEN Raise
       ELSE [username_valid |-> uv, password_valid |-> pv, username_error |-> ue.error,
             password_error |-> pe.error, overall_valid |-> uv /\ pv]

\* validate_and_clean_input for the input types 'username', 'password' and 'ssid' and
\* for a type it does not know.
CleanResult(valid, cleaned, error) == [valid |-> valid, cleaned |-> cleaned, error |-> error]
validate_and_clean_input(input_str, input_type) ==
    IF PyNot(input_str) THEN CleanResult(FALSE, PyStr(<<>>), "cannot be empty")
    ELSE LET cleaned == sanitize_input(input_str, 1000) IN
         IF input_type = "username"
         THEN IF validate_username(cleaned) THEN CleanResult(TRUE, cleaned, "")
              ELSE CleanResult(FALSE, PyStr(<<>>), "Invalid username format")
         ELSE IF input_type = "password"
         THEN IF validate_password(cleaned) THEN CleanResult(TRUE, cleaned, "")
              ELSE CleanResult(FALSE, PyStr(<<>>), "Invalid password format")
         ELSE IF input_type = "ssid"
         THEN LET ssid == clean_ssid(cleaned) IN
              IF validate_campus_ssid(ssid) THEN CleanResult(TRUE, ssid, "")
              ELSE CleanResult(FALSE, PyStr(<<>>), "Invalid SSID format")
         ELSE CleanResult(FALSE, PyStr(<<>>), "Unknown input type")

(***************************************************************************)
(* Claims about the validators                                             *)
(***************************************************************************)
MaxLen == 3
DefaultMaxLength == 1000

\* tab, space, 'a', a control character (SOH) and DEL
Alphabet == {9, 32, 97, 1, 127}
ShortStrings == UNION {[1..n -> Alphabet] : n \in 0..MaxLen}
LongStrings == {Str(1500, 97), Str(31, 97) \o <<32, 97>>, Str(40, 97)}
Strings == {PyStr(s) : s \in ShortStrings \cup LongStrings}
NonStrings == {None, PyInt(123), PyInt(0)}
MaxLengths == {2, DefaultMaxLength}
FormInputs == NonStrings \cup {PyStr(<<97>>), PyStr(Str(4, 97)), PyStr(Str(257, 97))}
InputTypes == {"username", "password", "ssid", "colour"}

PyBool(b) == [bool |-> b]

\* A call of a validator operation and what it returned.
Returned(op, args, ret) ==
    /\ last' = [op |-> op, v |-> "validator", args |-> args, ret |-> ret]
    /\ UNCHANGED <<vaultVars, authVars, loginVars>>

NextValidators ==
    \/ \E x \in Strings \cup NonStrings :
          Returned("validate_username", <<x>>, PyBool(validate_username(x)))
    \/ \E x \in Strings \cup NonStrings :
          Returned("validate_password", <<x>>, PyBool(validate_password(x)))
    \/ \E x \in Strings \cup NonStrings :
          Returned("validate_campus_ssid", <<x>>, PyBool(validate_campus_ssid(x)))
    \/ \E x \in Strings \cup NonStrings, n \in MaxLengths :
          Returned("sanitize_input", <<x, PyInt(n)>>, sanitize_input(x, n))
    \/ \E x \in Strings \cup NonStrings :
          Returned("clean_ssid", <<x>>, clean_ssid(x))
    \/ \E u \in FormInputs, p \in FormInputs :
          Returned("validate_credentials_format", <<u, p>>,
                   validate_credentials_format(u, p))
    \/ \E x \in Strings \cup NonStrings, t \in InputTypes :
          Returned("validate_and_clean_input", <<x, PyStr(t)>>,
                   validate_and_clean_input(x, t))

SpecValidators == Init /\ [][NextValidators]_vars

\* A result that says "invalid": False, the empty string, or a structured result
\* whose valid / overall_valid is False.
MarkedInvalid(r) ==
    \/ r = PyBool(FALSE)
    \/ r = PyStr(<<>>)
    \/ "overall_valid" \in DOMAIN r /\ ~r.overall_valid
    \/ "valid" \in DOMAIN r /\ ~r.valid

\* C18: a validator operation called with a value that is None or not a string (as
\* its input, or as username or password) does not raise and returns False, an empty
\* string or a structured result marked invalid.
C18_ValidatorsNeverRaise ==
    (last.v = "validator" /\ (~IsStr(last.args[1])
                               \/ (last.op = "validate_credentials_format"
                                   /\ ~IsStr(last.args[2]))))
    => (last.ret # Raise /\ MarkedInvalid(last.ret))

AsciiControl(c) == c < 32 \/ c = 127
Trimmed(s) == s = <<>> \/ (s[1] \notin Whitespace /\ s[Len(s)] \notin Whitespace)

\* C19: for every string s and max_length n, r = sanitize_input(s, n) satisfies
\* sanitize_input(r, n) = r, has at most n characters, no leading or trailing
\* whitespace and no ASCII control character other than tab, LF and CR; and 1500 'a'
\* give 1000 'a' under the default max_length.
C19_SanitizeIdempotentBounded ==
    (last.op = "sanitize_input" /\ IsStr(last.args[1])) =>
        LET n == last.args[2].int
            r == last.ret
        IN /\ sanitize_input(r, n) = r
           /\ Len(r.str) <= n
           /\ Trimmed(r.str)
           /\ \A i \in 1..Len(r.str) : AsciiControl(r.str[i]) => r.str[i] \in {9, 10, 13}
           /\ (last.args[1] = PyStr(Str(1500, 97)) /\ n = DefaultMaxLength)
              => r = PyStr(Str(1000, 97))

\* C20: for every string s, r = clean_ssid(s) has no leading or trailing whitespace,
\* no ASCII control character and at most 32 code points, and unless r is empty
\* validate_campus_ssid(r) is True.
C20_CleanSsidPostcondition ==
    (last.op = "clean_ssid" /\ IsStr(last.args[1])) =>
        LET r == last.ret IN
        /\ Trimmed(r.str)
        /\ \A i \in 1..Len(r.str) : ~AsciiControl(r.str[i])
        /\ Len(r.str) <= 32
        /\ r.str # <<>> => validate_campus_ssid(r)

(***************************************************************************)
(* LoginScreen (main.py): the login flow between the UI loop, the          *)
(* background thread that posts to the captive portal, and the vault "v1". *)
(* The widgets that only display (status label, progress bar, popups) are  *)
(* left out.                                                               *)
(***************************************************************************)
MaxLogins == 2

\* "", "a", " ab" and "", "aaaa"
TypedUsernames == {<<>>, <<97>>, <<32, 97, 98>>}
TypedPasswords == {<<>>, Str(4, 97)}
\* '081bel052'
DefaultUsername == <<48, 56, 49, 98, 101, 108, 48, 53, 50>>
\* What comes of requests.post: HTTP 200, another status, the timeout, another error.
PortalResponses == {"200", "403", "timeout", "error"}

Pair(username, password) == [username |-> username, password |-> password]

\* The user edits a field; a TextInput accepts input at any time.
TypeUsername(text) ==
    /\ username_input' = text
    /\ username_input' # username_input
    /\ last' = [op |-> "type_username", v |-> "login", ret |-> TRUE]
    /\ UNCHANGED <<vaultVars, authVars, password_input, login_btn_disabled, threads,
                   clock, attempts, sent, persisted, completion>>

TypePassword(text) ==
    /\ password_input' = text
    /\ password_input' # password_input
    /\ last' = [op |-> "type_password", v |-> "login", ret |-> TRUE]
    /\ UNCHANGED <<vaultVars, authVars, username_input, login_btn_disabled, threads,
                   clock, attempts, sent, persisted, completion>>

\* start_login_process: the button is disabled and a thread is started.
start_login_process(username, password) ==
    /\ login_btn_disabled' = TRUE
    /\ threads' = Append(threads, Pair(username, password))
    /\ attempts' = attempts + 1

\* Whether a press of the login button reaches login_user: a disabled button does
\* not dispatch on_press.
DispatchesAlways(disabled) == TRUE
Dispatches(disabled) == ~disabled

\* login_user, bound to on_press of the login button.
login_user ==
    /\ Dispatches(login_btn_disabled)
    /\ attempts < MaxLogins
    /\ LET username == Strip(username_input)
           password == Strip(password_input)
       IN IF username = <<>> \/ password = <<>>
          THEN /\ last' = [op |-> "login_user", v |-> "login", ret |-> FALSE]
               /\ UNCHANGED <<login_btn_disabled, threads, attempts>>
          ELSE /\ start_login_process(username, password)
               /\ last' = [op |-> "login_user", v |-> "login", ret |-> TRUE]
    /\ UNCHANGED <<vaultVars, authVars, username_input, password_input, clock, sent,
                   persisted, completion>>

\* The callbacks login_background schedules for an outcome of the request.
ScheduledUnlessTimeout(pair, response) ==
    IF response = "200" THEN <<[cb |-> "login_success", response |-> response, pair |-> pair]>>
    ELSE IF response = "timeout" THEN <<>>
    ELSE <<[cb |-> "login_failed", response |-> response, pair |-> pair]>>
Scheduled(pair, response) ==
    IF response = "200" THEN <<[cb |-> "login_success", response |-> response, pair |-> pair]>>
    ELSE <<[cb |-> "login_failed", response |-> response, pair |-> pair]>>

\* login_background, the body of thread i: the request is posted with the thread's
\* arguments and one callback is scheduled on the UI loop.
login_background(i, response) ==
    /\ i \in 1..Len(threads)
    /\ sent' = threads[i]
    /\ clock' = clock \o Scheduled(threads[i], response)
    /\ threads' = SubSeq(threads, 1, i - 1) \o SubSeq(threads, i + 1, Len(threads))
    /\ last' = [op |-> "login_background", v |-> "login", ret |-> response = "200"]
    /\ UNCHANGED <<vaultVars, authVars, username_input, password_input,
                   login_btn_disabled, attempts, persisted, completion>>

\* login_success, run by the UI loop: the button is enabled and the fields, as they
\* are now, are saved with the defaults campus='' and remember=False.
login_success(io) ==
    /\ clock # <<>>
    /\ Head(clock).cb = "login_success"
    /\ login_btn_disabled' = FALSE
    /\ save_credentials("v1", Strip(username_input), Strip(password_input), "", FALSE,
                        EmptyDict, io)
    /\ persisted' = IF last'.ret THEN Head(clock).pair ELSE persisted
    /\ completion' = [cb |-> "login_success", response |-> Head(clock).response,
                      n |-> attempts]
    /\ clock' = Tail(clock)
    /\ UNCHANGED <<authVars, username_input, password_input, threads, attempts, sent>>

\* login_failed, run by the UI loop.
login_failed ==
    /\ clock # <<>>
    /\ Head(clock).cb = "login_failed"
    /\ login_btn_disabled' = FALSE
    /\ completion' = [cb |-> "login_failed", response |-> Head(clock).response,
                      n |-> attempts]
    /\ clock' = Tail(clock)
    /\ last' = [op |-> "login_failed", v |-> "login", ret |-> TRUE]
    /\ UNCHANGED <<vaultVars, authVars, username_input, password_input, threads,
                   attempts, sent, persisted>>

\* load_saved_credentials: the fields are filled from the stored record, if one loads.
load_saved_credentials(credentials) ==
    IF credentials = None \/ DOMAIN credentials = {}
    THEN Pair(<<>>, <<>>)
    ELSE LET username == DictGet(credentials, "username", <<>>)
             password == DictGet(credentials, "password", <<>>)
         IN Pair(IF username = <<>> THEN DefaultUsername ELSE username, password)

\* The application is closed and started again: LoginScreen.__init__ constructs the
\* vault and the widgets and calls load_saved_credentials.  The stored password, ""
\* after redaction, is the empty text.
AppStart ==
    /\ Construct("v1", "ok", "ok", "ok")
    /\ LET credentials == LoadCredentialsFrom(fs', vault'["v1"].cipher, data_file("v1"))
           fields == load_saved_credentials(
                         IF credentials = None THEN None
                         ELSE IF credentials = Redact(credentials)
                                 /\ ~Truthy(DictGet(credentials, "remember", FALSE))
                              THEN DictSet(credentials, "password", <<>>)
                              ELSE credentials)
       IN /\ username_input' = fields.username
          /\ password_input' = fields.password
    /\ login_btn_disabled' = FALSE
    /\ threads' = <<>>
    /\ clock' = <<>>
    /\ UNCHANGED <<authVars, attempts, sent, persisted, completion>>

NextLogin ==
    \/ \E text \in TypedUsernames : TypeUsername(text)
    \/ \E text \in TypedPasswords : TypePassword(text)
    \/ login_user
    \/ \E i \in 1..Len(threads), response \in PortalResponses : login_background(i, response)
    \/ \E io \in {"ok", "open_fail"} : login_success(io)
    \/ login_failed
    \/ AppStart

SpecLogin == Init /\ [][NextLogin]_vars

(***************************************************************************)
(* Claims about the login flow                                             *)
(***************************************************************************)
Accepted(pair) ==
    validate_username(PyStr(pair.username)) /\ validate_password(PyStr(pair.password))

\* C13: the pair of every portal request, and the pair of every save_credentials the
\* login flow makes, is one that validate_username and validate_password accept.
C13_ValidationGates ==
    /\ sent # None => Accepted(sent)
    /\ (last.op = "save_credentials" /\ last.ret)
       => Accepted(Pair(last.username, last.password))

\* C14: when the application starts after a login with (username, password) has
\* succeeded and its credentials were saved, the username field holds that username
\* and the password field that password.
C14_PrefillAfterLogin ==
    [][(last'.op = "construct" /\ persisted # None)
       => (username_input' = persisted.username
           /\ password_input' = persisted.password)]_vars

\* SpecLoginFair: a running thread finishes its request (it ends at the latest with
\* the timeout) and the UI loop runs the callbacks scheduled on it.
SpecLoginFair ==
    /\ SpecLogin
    /\ WF_vars(\E i \in 1..Len(threads), response \in PortalResponses :
                   login_background(i, response))
    /\ WF_vars(\E io \in {"ok", "open_fail"} : login_success(io))
    /\ WF_vars(login_failed)

\* While the button is disabled exactly one completion is outstanding: a running
\* thread or a scheduled callback; a callback is login_success exactly for HTTP 200.
OneCompletion ==
    /\ Len(threads) + Len(clock) = (IF login_btn_disabled THEN 1 ELSE 0)
    /\ \A i \in 1..Len(clock) : clock[i].cb = "login_success" <=> clock[i].response = "200"
    /\ completion # None => (completion.cb = "login_success" <=> completion.response = "200")

Letters == (97..122) \cup (65..90)
Digits == 48..57
Alnum == Letters \cup Digits

\* str.lower() on the characters used here: A-Z, and the Kelvin sign U+212A whose
\* lower case is 'k'; every other character of the inputs below has no lower case.
Lower(s) ==
    [i \in 1..Len(s) |-> IF s[i] \in 65..90 THEN s[i] + 32
                         ELSE IF s[i] = 8490 THEN 107 ELSE s[i]]

\* The pieces of s between the occurrences of sep (str.split(sep)).
RECURSIVE Split(_, _)
Split(s, sep) ==
    LET idx == {i \in 1..Len(s) : s[i] = sep} IN
    IF idx = {} THEN <<s>>
    ELSE LET i == CHOOSE k \in idx : \A j \in idx : k <= j
         IN <<SubSeq(s, 1, i - 1)>> \o Split(SubSeq(s, i + 1, Len(s)), sep)

\* [a-zA-Z0-9]([a-zA-Z0-9-]{0,61}[a-zA-Z0-9])?
LabelPattern(l) ==
    /\ Len(l) >= 1 /\ Len(l) <= 63
    /\ l[1] \in Alnum /\ l[Len(l)] \in Alnum
    /\ \A i \in 1..Len(l) : l[i] \in Alnum \cup {45}

\* re.match(r'^LABEL(\.LABEL)*$', domain): a first label and any number, zero
\* included, of further labels each after a dot.  No class contains the dot, so the
\* labels are the pieces between the dots; the newline `$` tolerates at the end
\* cannot be there after strip().
DomainPattern(domain) ==
    LET labels == Split(domain, 46) IN
    \A i \in 1..Len(labels) : LabelPattern(labels[i])

validate_domain(domain) ==
    IF NotAString(domain) THEN FALSE
    ELSE LET d == Lower(Strip(domain.str)) IN
         IF Len(d) < 1 \/ Len(d) > 253 THEN FALSE
         ELSE IF ~DomainPattern(d) THEN FALSE
         ELSE TRUE

\* 'a', 'A', '-', '.' and the space
DomainAlphabet == {97, 65, 45, 46, 32}
Dotted(a, b) == a \o <<46>> \o b
DomainInputs ==
    {PyStr(s) : s \in UNION {[1..n -> DomainAlphabet] : n \in 0..MaxLen}}
    \cup {PyStr(Dotted(Str(63, 97), Dotted(Str(63, 97), Dotted(Str(63, 97), Str(n, 97))))) :
             n \in {61, 62}}
    \cup {PyStr(Dotted(Str(n, 97), <<97>>)) : n \in {63, 64}}
    \cup {PyStr(Dotted(Str(250, 97), <<99, 111, 109>>)), PyStr(<<8490, 46, 97>>)}
    \cup NonStrings

\* What a pattern ending in `$` is matched against: `$` matches at the end of the
\* string and also before one final newline.
Bodies(s) ==
    {s} \cup (IF Len(s) >= 1 /\ s[Len(s)] = 10 THEN {SubSeq(s, 1, Len(s) - 1)} ELSE {})

AllIn(s, class) == \A i \in 1..Len(s) : s[i] \in class

\* ^[a-zA-Z0-9._%+-]+@[a-zA-Z0-9.-]+\.[a-zA-Z]{2,}$ : no class contains '@', so the
\* string has exactly one; the letters after the last dot are the {2,} group, and
\* what lies between the '@' and that dot is the [a-zA-Z0-9.-]+ group.
EmailPattern(e) ==
    LET ats == {i \in 1..Len(e) : e[i] = 64} IN
    /\ Cardinality(ats) = 1
    /\ LET p == CHOOSE i \in ats : TRUE
           local == SubSeq(e, 1, p - 1)
           rest == SubSeq(e, p + 1, Len(e))
           dots == {i \in 1..Len(rest) : rest[i] = 46}
       IN /\ Len(local) >= 1 /\ AllIn(local, Alnum \cup {46, 95, 37, 43, 45})
          /\ dots # {}
          /\ LET q == CHOOSE i \in dots : \A j \in dots : i >= j
                 dom == SubSeq(rest, 1, q - 1)
                 tld == SubSeq(rest, q + 1, Len(rest))
             IN /\ Len(dom) >= 1 /\ AllIn(dom, Alnum \cup {46, 45})
                /\ Len(tld) >= 2 /\ AllIn(tld, Letters)

validate_email(email) ==
    IF NotAString(email) THEN FALSE
    ELSE IF ~(\E b \in Bodies(email.str) : EmailPattern(b)) THEN FALSE
    ELSE IF Len(email.str) > 254 THEN FALSE
    ELSE TRUE

\* Addresses local@rest over 'a' and '.', rest with and without a last dot and a
\* top-level domain of zero, one or two letters; strings without '@', with two '@',
\* with a final newline, and of 254 and 255 characters.
DotStrings == UNION {[1..n -> {97, 46}] : n \in 0..MaxLen}
TopLevels == {<<>>, <<97>>, <<97, 97>>}
At(local, rest) == local \o <<64>> \o rest
EmailInputs ==
    {PyStr(At(l, r)) : l \in DotStrings,
                       r \in DotStrings \cup {Dotted(d, t) : d \in DotStrings, t \in TopLevels}}
    \cup {PyStr(s) : s \in DotStrings}
    \cup {PyStr(At(<<97>>, At(<<97>>, <<97, 46, 97, 97>>))),
          PyStr(At(<<97>>, <<97, 46, 97, 97, 10>>)),
          PyStr(At(Str(249, 97), <<97, 46, 97, 97>>)),
          PyStr(At(Str(250, 97), <<97, 46, 97, 97>>))}
    \cup NonStrings

HexDigits == Digits \cup (65..70) \cup (97..102)

\* ^([0-9A-Fa-f]{2}[:-]){5}([0-9A-Fa-f]{2})$
OctetPattern(s) ==
    /\ Len(s) = 17
    /\ \A i \in 1..17 : IF i % 3 = 0 THEN s[i] \in {58, 45} ELSE s[i] \in HexDigits

\* ^([0-9A-Fa-f]{4}\.){2}([0-9A-Fa-f]{4})$
QuadPattern(s) ==
    /\ Len(s) = 14
    /\ \A i \in 1..14 : IF i % 5 = 0 THEN s[i] = 46 ELSE s[i] \in HexDigits

\* ^([0-9A-Fa-f]{12})$
BarePattern(s) == Len(s) = 12 /\ AllIn(s, HexDigits)

validate_mac_address(mac) ==
    IF NotAString(mac) THEN FALSE
    ELSE IF \E b \in Bodies(mac.str) : OctetPattern(b) THEN TRUE
    ELSE IF \E b \in Bodies(mac.str) : QuadPattern(b) THEN TRUE
    ELSE IF \E b \in Bodies(mac.str) : BarePattern(b) THEN TRUE
    ELSE FALSE

\* Six octets "0a" .. with each of the five separators chosen from ':', '-' and '.';
\* three groups of four digits joined by '.' or by '-'; 11, 12 and 13 bare digits; a
\* letter that is no hex digit; a final newline.
Octet == <<48, 97>>
Separators == {58, 45, 46}
Octets(seps) ==
    Octet \o <<seps[1]>> \o Octet \o <<seps[2]>> \o Octet \o <<seps[3]>> \o Octet
          \o <<seps[4]>> \o Octet \o <<seps[5]>> \o Octet
Quads(sep) == Str(4, 70) \o <<sep>> \o Str(4, 70) \o <<sep>> \o Str(4, 70)
MacInputs ==
    {PyStr(Octets(seps)) : seps \in [1..5 -> Separators]}
    \cup {PyStr(Quads(sep)) : sep \in Separators}
    \cup {PyStr(Str(n, 70)) : n \in 11..13}
    \cup {PyStr(Str(12, 71)), PyStr(Octets([i \in 1..5 |-> 58]) \o <<10>>),
          PyStr(Octets([i \in 1..5 |-> 58]) \o <<48>>)}
    \cup NonStrings

\* int(port): surrounding whitespace is dropped; an optional sign; then decimal
\* digits, single underscores allowed between two digits.  The digits are those of
\* any script (Unicode category Nd), here the ASCII and the Arabic-Indic ones.
\* Anything else is a ValueError.
ValueError == [raise |-> "ValueError"]
DecimalDigits == Digits \cup (1632..1641)
DigitValue(c) == IF c \in Digits THEN c - 48 ELSE c - 1632

RECURSIVE DigitsValue(_)
DigitsValue(ds) ==
    IF ds = <<>> THEN 0
    ELSE 10 * DigitsValue(SubSeq(ds, 1, Len(ds) - 1)) + DigitValue(ds[Len(ds)])

ParseInt(s) ==
    LET t == Strip(s)
        signed == Len(t) >= 1 /\ t[1] \in {43, 45}
        body == IF signed THEN SubSeq(t, 2, Len(t)) ELSE t
        wellFormed ==
            /\ Len(body) >= 1
            /\ AllIn(body, DecimalDigits \cup {95})
            /\ body[1] # 95 /\ body[Len(body)] # 95
            /\ \A i \in 1..(Len(body) - 1) : ~(body[i] = 95 /\ body[i + 1] = 95)
        value == DigitsValue(SelectSeq(body, LAMBDA c : c # 95))
    IN IF ~wellFormed THEN ValueError
       ELSE PyInt(IF signed /\ t[1] = 45 THEN 0 - value ELSE value)

validate_port(port) ==
    IF NotAString(port) THEN FALSE
    ELSE LET port_num == ParseInt(port.str) IN
         IF port_num = ValueError THEN FALSE
         ELSE 1 <= port_num.int /\ port_num.int <= 65535

\* str(n) for n >= 0
RECURSIVE Decimal(_)
Decimal(n) == IF n < 10 THEN <<48 + n>> ELSE Decimal(n \div 10) \o <<48 + (n % 10)>>

\* The numbers around the two boundaries, each written plainly, with a sign, with
\* surrounding whitespace, with leading zeros, with a fraction, with an underscore
\* after the first digit, and in Arabic-Indic digits; and strings that are no number.
PortNumbers == {0, 1, 80, 65535, 65536}
Spellings(d) ==
    {d, <<43>> \o d, <<45>> \o d, <<32>> \o d \o <<32, 10>>, <<48, 48>> \o d,
     d \o <<46, 53>>, <<d[1], 95>> \o SubSeq(d, 2, Len(d)),
     [i \in 1..Len(d) |-> d[i] - 48 + 1632]}
PortInputs ==
    {PyStr(s) : s \in UNION {Spellings(Decimal(n)) : n \in PortNumbers}}
    \cup {PyStr(<<97, 98, 99>>), PyStr(<<>>), PyStr(<<43>>), PyStr(<<56, 95, 95, 48>>)}
    \cup NonStrings

\* Passwords around the two length boundaries, and of whitespace only.
PasswordInputs ==
    {PyStr(Str(n, 97)) : n \in {3, 4, 256, 257}}
    \cup {PyStr(Str(4, 32)), PyStr(Str(3, 32) \o <<97>>), PyStr(Str(300, 32))}
    \cup Strings \cup NonStrings

NextFormats ==
    \/ \E x \in DomainInputs :
          Returned("validate_domain", <<x>>, PyBool(validate_domain(x)))
    \/ \E x \in EmailInputs :
          Returned("validate_email", <<x>>, PyBool(validate_email(x)))
    \/ \E x \in MacInputs :
          Returned("validate_mac_address", <<x>>, PyBool(validate_mac_address(x)))
    \/ \E x \in PortInputs :
          Returned("validate_port", <<x>>, PyBool(validate_port(x)))
    \/ \E x \in PasswordInputs :
          Returned("validate_password", <<x>>, PyBool(validate_password(x)))

SpecFormats == Init /\ [][NextFormats]_vars

\* A name of at least two dot-separated labels, each of 1 to 63 letters, digits or
\* hyphens with no hyphen first or last, and of at most 253 characters.
DomainName(s) ==
    LET labels == Split(s, 46) IN
    /\ Len(s) <= 253
    /\ Len(labels) >= 2
    /\ \A i \in 1..Len(labels) :
          LET l == labels[i] IN
          /\ Len(l) \in 1..63
          /\ AllIn(l, Alnum \cup {45})
          /\ l[1] # 45 /\ l[Len(l)] # 45

\* C21: validate_domain accepts a name if and only if it has at most 253 characters
\* and consists of at least two dot-separated labels, each of 1 to 63 letters, digits
\* or hyphens, none starting or ending with a hyphen; a single label, an empty label
\* and a label with a leading or trailing hyphen are rejected.
C21_DomainLabels ==
    (last.op = "validate_domain" /\ IsStr(last.args[1])) =>
        (last.ret.bool <=> DomainName(last.args[1].str))

\* Two dots next to each other somewhere in s.
ConsecutiveDots(s) == \E i \in 1..(Len(s) - 1) : s[i] = 46 /\ s[i + 1] = 46

\* For an address with an '@': what stands before the first '@' and what after it.
LocalPart(s) == SubSeq(s, 1, (CHOOSE i \in 1..Len(s) : s[i] = 64 /\ \A j \in 1..(i - 1) : s[j] # 64) - 1)
DomainPart(s) == SubSeq(s, Len(LocalPart(s)) + 2, Len(s))

\* In what follows the '@': no dot, or nothing after the last dot (no top-level
\* domain); nothing before the last dot (an empty domain).
NoTopLevel(d) == d = <<>> \/ (\A i \in 1..Len(d) : d[i] # 46) \/ d[Len(d)] = 46
NoDomain(d) == d = <<>> \/ (d[1] = 46 /\ \A i \in 2..Len(d) : d[i] # 46)

\* C22: validate_email rejects every address that contains two consecutive dots, in
\* the local part or in the domain part, and every address with an empty local part,
\* an empty domain, no top-level domain, or more than 254 characters.
C22_EmailRejects ==
    (last.op = "validate_email" /\ IsStr(last.args[1])) =>
        LET s == last.args[1].str IN
        (\/ ConsecutiveDots(s)
         \/ Len(s) > 254
         \/ /\ \E i \in 1..Len(s) : s[i] = 64
            /\ \/ LocalPart(s) = <<>>
               \/ NoDomain(DomainPart(s))
               \/ NoTopLevel(DomainPart(s)))
        => ~last.ret.bool

\* The same without the clause on consecutive dots.
EmailRejectsButDots ==
    (last.op = "validate_email" /\ IsStr(last.args[1])) =>
        LET s == last.args[1].str IN
        (\/ Len(s) > 254
         \/ /\ \E i \in 1..Len(s) : s[i] = 64
            /\ \/ LocalPart(s) = <<>>
               \/ NoDomain(DomainPart(s))
               \/ NoTopLevel(DomainPart(s)))
        => ~last.ret.bool

\* Six hex octets with one separator throughout, ':' or '-'; three groups of four hex
\* digits with dots between; or twelve hex digits.
CanonicalMac(s) ==
    \/ /\ Len(s) = 17
       /\ \E sep \in {58, 45} :
             \A i \in 1..17 : IF i % 3 = 0 THEN s[i] = sep ELSE s[i] \in HexDigits
    \/ /\ Len(s) = 14
       /\ \A i \in 1..14 : IF i % 5 = 0 THEN s[i] = 46 ELSE s[i] \in HexDigits
    \/ /\ Len(s) = 12
       /\ AllIn(s, HexDigits)

\* C23: validate_mac_address accepts exactly the three canonical forms: six hex
\* octets separated throughout by the same separator (all ':' or all '-'), three
\* dot-separated groups of four hex digits, or twelve bare hex digits; an address
\* that mixes ':' and '-' is rejected.
C23_MacCanonical ==
    (last.op = "validate_mac_address" /\ IsStr(last.args[1])) =>
        (last.ret.bool <=> CanonicalMac(last.args[1].str))

\* A decimal numeral of n: an optional sign and one or more of the digits 0-9.
Denotes(s, n) ==
    LET signed == Len(s) >= 1 /\ s[1] \in {43, 45}
        ds == IF signed THEN SubSeq(s, 2, Len(s)) ELSE s
    IN /\ Len(ds) >= 1
       /\ AllIn(ds, Digits)
       /\ n = (IF signed /\ s[1] = 45 THEN 0 - DigitsValue(ds) ELSE DigitsValue(ds))

\* C24: validate_password(p) is true exactly for the strings of length 4 to 256 that
\* are not all whitespace, and validate_port(s) is true exactly for the strings that
\* denote an integer n with 1 <= n <= 65535.
C24_Boundaries ==
    /\ (last.op = "validate_password" /\ IsStr(last.args[1])) =>
          LET p == last.args[1].str IN
          last.ret.bool <=> (/\ Len(p) >= 4 /\ Len(p) <= 256
                             /\ \E i \in 1..Len(p) : p[i] \notin Whitespace)
    /\ (last.op = "validate_port" /\ IsStr(last.args[1])) =>
          (last.ret.bool <=> \E n \in 1..65535 : Denotes(last.args[1].str, n))

\* The password half of C24 alone, and the port half for the plain numerals.
PasswordBoundaries ==
    (last.op = "validate_password" /\ IsStr(last.args[1])) =>
        LET p == last.args[1].str IN
        last.ret.bool <=> (/\ Len(p) >= 4 /\ Len(p) <= 256
                           /\ \E i \in 1..Len(p) : p[i] \notin Whitespace)
PortBoundaries ==
    \A n \in PortNumbers :
        (last.op = "validate_port" /\ last.args[1] = PyStr(Decimal(n))) =>
            (last.ret.bool <=> (1 <= n /\ n <= 65535))

\* C25: after any sequence of vault operations on one storage root, every encrypted
\* record file on disk is decryptable by a vault newly constructed on that root:
\* whenever an encrypted record exists, the key file exists and holds the key the
\* record was encrypted with.
C25_KeyRecordConsistency ==
    \A p \in {data_file("v1"), secure_file("v1", <<"a">>)} :
        fs[p].kind = "token" => fs[key_file("v1")] = KeyBytes(fs[p].k)

\* C26: load_credentials() returns a non-empty password only if the most recent
\* successful save_credentials call was made with remember = true, whatever
\* additional_data that call carried: the additional pairs neither switch the
\* redaction off nor replace the stored username, password or remember.
C26_RememberAlone ==
    (last.op = "save_credentials" /\ last.ret) =>
        LET credentials == load_credentials(last.v) IN
        /\ credentials # None
        /\ credentials.password # "" => last.remember
        /\ credentials.username = last.username
        /\ credentials.remember = last.remember
        /\ last.remember => credentials.password = last.password

\* C27: the login flow calls save_credentials only after a portal request returned
\* HTTP 200, and the (username, password) it stores is the pair that was sent in that
\* request, also when the user edits the fields while the request is in flight.
C27_PersistedIsAuthenticated ==
    last.op = "save_credentials" =>
        /\ completion # None
        /\ completion.response = "200"
        /\ last.ret => Pair(last.username, last.password) = sent

\* C28: from the moment start_login_process disables the login button until the
\* completion callback enables it, no second login thread is started: at every moment
\* at most one portal request is outstanding, and a completion callback is delivered
\* only for the attempt started last.
C28_OneLoginInFlight ==
    /\ [](Len(threads) + Len(clock) <= 1)
    /\ [][login_btn_disabled => Len(threads') <= Len(threads)]_vars
    /\ [][Len(threads') > Len(threads) => (threads = <<>> /\ clock = <<>>)]_vars
    /\ [][completion' # completion =>
             (threads = <<>> /\ Len(clock) = 1 /\ Head(clock).pair = sent
              /\ completion'.n = attempts)]_vars

\* The second login is in flight, the first having been completed; the user has
\* edited the username field since the request was started.
C28_Witness ==
    /\ login_btn_disabled
    /\ Len(threads) = 1
    /\ attempts = 2
    /\ completion # None /\ completion.n = 1
    /\ Strip(username_input) # threads[1].username

\* The call being made is rejected because of the lockout; the lockout is over.
LockedNow == failed_attempts >= max_attempts /\ now - last_auth_attempt < lockout_duration
LockoutElapsed == failed_attempts >= max_attempts /\ now - last_auth_attempt >= lockout_duration

\* What C29 says of every authenticate call except for the calls it rejects.
CounterSteps ==
    /\ [](0 <= failed_attempts /\ failed_attempts <= max_attempts)
    /\ [][last'.op = "authenticate" =>
             /\ failed_attempts' <= failed_attempts + 1
             /\ last'.ret => failed_attempts' = 0]_vars

\* C29 as stated: 0 <= failed_attempts <= max_attempts in every reachable state; an
\* authenticate call increases failed_attempts by at most 1; a call rejected because
\* of lockout or because username or password is empty leaves failed_attempts and
\* last_auth_attempt unchanged; a successful authentication sets failed_attempts to 0.
C29_RejectedChangesNothing ==
    /\ CounterSteps
    /\ [][(last'.op = "authenticate" /\ (LockedNow \/ ~last'.given)) =>
             UNCHANGED <<failed_attempts, last_auth_attempt>>]_vars

\* C29, amended: a call rejected because username or password is empty leaves the two
\* fields unchanged unless failed_attempts had reached max_attempts and the lockout
\* is over, and then it sets both to 0.
C29_CounterBound ==
    /\ CounterSteps
    /\ [][(last'.op = "authenticate" /\ LockedNow) =>
             UNCHANGED <<failed_attempts, last_auth_attempt>>]_vars
    /\ [][(last'.op = "authenticate" /\ ~LockedNow /\ ~last'.given) =>
             IF LockoutElapsed
             THEN failed_attempts' = 0 /\ last_auth_attempt' = 0
             ELSE UNCHANGED <<failed_attempts, last_auth_attempt>>]_vars

\* A call with an empty username or password, made when the lockout that followed
\* max_attempts counted failures was over, has returned False and the two fields are 0.
C29_Witness ==
    /\ last.op = "authenticate"
    /\ ~last.given /\ ~last.ret
    /\ last.counted.n = max_attempts
    /\ last.counted.elapsed >= lockout_duration
    /\ failed_attempts = 0 /\ last_auth_attempt = 0

(***************************************************************************)
(* The Validator in front of local authentication                          *)
(***************************************************************************)
\* A code point as the one-character string the AuthService operators read.
Chr(c) ==
    CASE c = 97 -> "a" [] c = 98 -> "b" [] c = 99 -> "c" [] c = 120 -> "x"
      [] c = 49 -> "1" [] c = 50 -> "2" [] c = 46 -> "." [] c = 95 -> "_"
      [] c = 45 -> "-" [] c = 64 -> "@" [] c = 32 -> " " [] c = 10 -> "\n"
Text(s) == [i \in 1..Len(s) |-> Chr(s[i])]

\* "a", "ab", "abc", "a@b", ".ab", " abc" and "aaa" .. "aaaaaa"
EnteredUsernames == {<<97>>, <<97, 98>>, <<97, 98, 99>>, <<97, 64, 98>>, <<46, 97, 98>>,
                     <<32, 97, 98, 99>>}
EnteredPasswords == {Str(n, 97) : n \in 3..6}

\* A pair the Validator reports as overall_valid is handed to authenticate.
ValidatedAuthenticate(username, password) ==
    /\ validate_credentials_format(PyStr(username), PyStr(password)).overall_valid
    /\ authenticate(Text(username), Text(password), "no_request")

InitAgree == InitAuth /\ server = "disabled"

NextAgree ==
    /\ UNCHANGED <<vaultVars, loginVars>>
    /\ \/ \E u \in EnteredUsernames, pw \in EnteredPasswords : ValidatedAuthenticate(u, pw)
       \/ \E d \in TickSteps : Tick(d)

SpecAgree == InitAgree /\ [][NextAgree]_vars

\* C30: every (username, password) pair for which validate_credentials_format
\* reports overall_valid = true is accepted by local authentication when the service
\* is not locked out, and so never counts as a failed attempt.
C30_ValidatorAuthAgree ==
    [][(last'.op = "authenticate" /\ ~LockedNow) =>
          (last'.ret /\ failed_attempts' <= failed_attempts)]_vars

====
